---- MODULE Spec2Model ----
(***************************************************************************)
(* Model of src/main.py: a script that obtains a SparkSession, builds a    *)
(* two-row dataframe from a literal list and displays it.                  *)
(*                                                                         *)
(* Two independent runs of the script (separate processes) are modelled    *)
(* side by side, so that statements comparing two runs can be checked.     *)
(* Each run has its own process environment (arguments, environment        *)
(* variables, a possibly pre-existing active session) and its own copy of  *)
(* the script's variables.  The framework (pyspark) is the environment of  *)
(* the script: each of its calls either returns, with the effect its       *)
(* public API documents, or raises.                                        *)
(***************************************************************************)
EXTENDS Integers, Sequences, FiniteSets, TLC

\* ---- bounds of the model ------------------------------------------------
\* command-line arguments of a run are drawn from 0..MaxArgv
MaxArgv == 1
\* environment settings of a run are drawn from 0..MaxEnv
MaxEnv == 1

Runs == {1, 2}
Argvs == 0..MaxArgv
Envs == 0..MaxEnv

None == "None"

\* A script variable holding a list or a dataframe is a sequence of length
\* zero while the name is not bound, and of length one, <<value>>, once it is.
Unbound == <<>>
Bound(v) == <<v>>
IsBound(x) == Len(x) = 1
ValueOf(x) == x[1]

\* no exception raised so far
NoException == [at |-> None, exc |-> None]

\* exceptions the framework can raise from a call
Errors == {"Py4JJavaError", "PySparkRuntimeError"}
ImportErrors == {"ModuleNotFoundError"}

\* identifiers of session objects: one that exists before the script runs
\* (a host that already started a session), one created by the script
PreSession == "session0"
NewSession == "session1"

VARIABLES
    pc,             \* pc[r]: the statement run r executes next
    argv,           \* argv[r]: command-line arguments of the process
    env,            \* env[r]: environment variables of the process
    activeSession,  \* activeSession[r]: the framework's active session
    spark,          \* the script's variable spark
    data,           \* the script's variable data
    df,             \* the script's variable df
    output,         \* output[r]: the tables written to the console
    calls,          \* calls[r]: the framework calls made so far, in order
    raised,         \* raised[r]: the statement that raised, and what it raised
    error           \* error[r]: the exception the process ended with

vars == <<pc, argv, env, activeSession, spark, data, df, output, calls,
          raised, error>>

\* ---- the literals of the script -------------------------------------------
\* Python values carry their type: an int and a str are told apart at run time
PyInt(n) == [type |-> "int", val |-> n]
PyStr(s) == [type |-> "str", val |-> s]

\* the literal with its two records exchanged
DataLiteralSwapped ==
    << <<PyInt(2), PyStr("Bob")>>, <<PyInt(1), PyStr("Alice")>> >>

\* line 5: data = [(1, "Alice"), (2, "Bob")]
DataLiteral == << <<PyInt(1), PyStr("Alice")>>, <<PyInt(2), PyStr("Bob")>> >>

\* line 6: the column names passed to createDataFrame
ColumnNames == <<"id", "name">>

\* line 8: df.show() takes the defaults n=20, truncate=True (20 characters)
ShowRows == 20
TruncateWidth == 20

\* ---- the framework calls, as the script uses them -------------------------
Min(a, b) == IF a < b THEN a ELSE b

\* SparkSession.builder.getOrCreate(): the active session when there is
\* one, a new session otherwise
getOrCreate(active) == IF active # None THEN active ELSE NewSession

\* spark.createDataFrame(d, cols): a dataframe with the given column names
\* and the rows of d in the order of d
createDataFrame(sess, d, cols) ==
    [session |-> sess, columns |-> cols, rows |-> d]

\* One displayed cell: the value as text, cut to 17 characters and "..."
\* when longer than the truncation width
ShowCell(v) ==
    LET s == IF v.type = "int" THEN ToString(v.val) ELSE v.val
    IN  IF Len(s) > TruncateWidth
        THEN SubSeq(s, 1, TruncateWidth - 3) \o "..."
        ELSE s

\* df.show(): the header and the first 20 rows, each cell as text
show(d) ==
    [header |-> d.columns,
     rows   |-> [i \in 1..Min(Len(d.rows), ShowRows) |->
                    [j \in 1..Len(d.rows[i]) |-> ShowCell(d.rows[i][j])]]]

\* ---- initial state ---------------------------------------------------------
Init ==
    /\ pc = [r \in Runs |-> "import"]
    /\ argv \in [Runs -> Argvs]
    /\ env \in [Runs -> Envs]
    /\ activeSession \in [Runs -> {None, PreSession}]
    /\ spark = [r \in Runs |-> None]
    /\ data = [r \in Runs |-> Unbound]
    /\ df = [r \in Runs |-> Unbound]
    /\ output = [r \in Runs |-> <<>>]
    /\ calls = [r \in Runs |-> <<>>]
    /\ raised = [r \in Runs |-> NoException]
    /\ error = [r \in Runs |-> None]

\* An uncaught exception e ends the run: the script has no try/except
Propagate(r, stmt, e) ==
    /\ raised' = [raised EXCEPT ![r] = [at |-> stmt, exc |-> e]]
    /\ error' = [error EXCEPT ![r] = e]
    /\ pc' = [pc EXCEPT ![r] = "failed"]

\* the import followed directly by the definition of data, no session obtained
ImportSkipSession(r) ==
    /\ pc[r] = "import"
    /\ pc' = [pc EXCEPT ![r] = "data"]
    /\ UNCHANGED <<argv, env, activeSession, spark, data, df, output, calls,
                   raised, error>>

\* ---- line 1: from pyspark.sql import SparkSession -------------------------
Import(r) ==
    /\ pc[r] = "import"
    /\ pc' = [pc EXCEPT ![r] = "getOrCreate"]
    /\ UNCHANGED <<argv, env, activeSession, spark, data, df, output, calls,
                   raised, error>>

ImportFail(r) ==
    /\ pc[r] = "import"
    /\ \E e \in ImportErrors : Propagate(r, "import", e)
    /\ UNCHANGED <<argv, env, activeSession, spark, data, df, output, calls>>

\* ---- line 3: spark = SparkSession.builder.getOrCreate() -------------------
GetOrCreate(r) ==
    /\ pc[r] = "getOrCreate"
    /\ calls' = [calls EXCEPT ![r] = Append(@, "getOrCreate")]
    /\ spark' = [spark EXCEPT ![r] = getOrCreate(activeSession[r])]
    /\ activeSession' = [activeSession EXCEPT ![r] = getOrCreate(@)]
    /\ pc' = [pc EXCEPT ![r] = "data"]
    /\ UNCHANGED <<argv, env, data, df, output, raised, error>>

\* a failure of session creation that is swallowed: the script goes on
GetOrCreateFailSwallowed(r) ==
    /\ pc[r] = "getOrCreate"
    /\ calls' = [calls EXCEPT ![r] = Append(@, "getOrCreate")]
    /\ \E e \in Errors :
          raised' = [raised EXCEPT ![r] = [at |-> "getOrCreate", exc |-> e]]
    /\ pc' = [pc EXCEPT ![r] = "data"]
    /\ UNCHANGED <<argv, env, activeSession, spark, data, df, output, error>>

GetOrCreateFail(r) ==
    /\ pc[r] = "getOrCreate"
    /\ calls' = [calls EXCEPT ![r] = Append(@, "getOrCreate")]
    /\ \E e \in Errors : Propagate(r, "getOrCreate", e)
    /\ UNCHANGED <<argv, env, activeSession, spark, data, df, output>>

\* a dataset that depends on the command-line arguments
DefineDataFromArgv(r) ==
    /\ pc[r] = "data"
    /\ data' = [data EXCEPT ![r] =
                  Bound(SubSeq(DataLiteral, 1, 1 + argv[r]))]
    /\ pc' = [pc EXCEPT ![r] = "createDataFrame"]
    /\ UNCHANGED <<argv, env, activeSession, spark, df, output, calls,
                   raised, error>>

\* ---- line 5: data = [(1, "Alice"), (2, "Bob")] ----------------------------
DefineData(r) ==
    /\ pc[r] = "data"
    /\ data' = [data EXCEPT ![r] = Bound(DataLiteral)]
    /\ pc' = [pc EXCEPT ![r] = "createDataFrame"]
    /\ UNCHANGED <<argv, env, activeSession, spark, df, output, calls,
                   raised, error>>

\* a construction that consumes the list it is handed
CreateDataFrameConsuming(r) ==
    /\ pc[r] = "createDataFrame"
    /\ calls' = [calls EXCEPT ![r] = Append(@, "createDataFrame")]
    /\ df' = [df EXCEPT ![r] =
            Bound(createDataFrame(spark[r], ValueOf(data[r]), ColumnNames))]
    /\ data' = [data EXCEPT ![r] = Bound(<<>>)]
    /\ pc' = [pc EXCEPT ![r] = "show"]
    /\ UNCHANGED <<argv, env, activeSession, spark, output, raised, error>>

\* ---- line 6: df = spark.createDataFrame(data, ["id", "name"]) -------------
CreateDataFrame(r) ==
    /\ pc[r] = "createDataFrame"
    /\ calls' = [calls EXCEPT ![r] = Append(@, "createDataFrame")]
    /\ df' = [df EXCEPT ![r] =
            Bound(createDataFrame(spark[r], ValueOf(data[r]), ColumnNames))]
    /\ pc' = [pc EXCEPT ![r] = "show"]
    /\ UNCHANGED <<argv, env, activeSession, spark, data, output, raised,
                   error>>

CreateDataFrameFail(r) ==
    /\ pc[r] = "createDataFrame"
    /\ calls' = [calls EXCEPT ![r] = Append(@, "createDataFrame")]
    /\ \E e \in Errors : Propagate(r, "createDataFrame", e)
    /\ UNCHANGED <<argv, env, activeSession, spark, data, df, output>>

\* a display followed by spark.stop()
ShowThenStop(r) ==
    /\ pc[r] = "show"
    /\ calls' = [calls EXCEPT ![r] = Append(@, "show")]
    /\ output' = [output EXCEPT ![r] = Append(@, show(ValueOf(df[r])))]
    /\ activeSession' = [activeSession EXCEPT ![r] = None]
    /\ pc' = [pc EXCEPT ![r] = "done"]
    /\ UNCHANGED <<argv, env, spark, data, df, raised, error>>

\* a display executed twice
ShowTwice(r) ==
    /\ pc[r] = "show"
    /\ calls' = [calls EXCEPT ![r] = Append(Append(@, "show"), "show")]
    /\ output' = [output EXCEPT ![r] =
            Append(Append(@, show(ValueOf(df[r]))), show(ValueOf(df[r])))]
    /\ pc' = [pc EXCEPT ![r] = "done"]
    /\ UNCHANGED <<argv, env, activeSession, spark, data, df, raised, error>>

\* ---- line 8: df.show() -----------------------------------------------------
Show(r) ==
    /\ pc[r] = "show"
    /\ calls' = [calls EXCEPT ![r] = Append(@, "show")]
    /\ output' = [output EXCEPT ![r] = Append(@, show(ValueOf(df[r])))]
    /\ pc' = [pc EXCEPT ![r] = "done"]
    /\ UNCHANGED <<argv, env, activeSession, spark, data, df, raised, error>>

\* a failed display that is caught and tried again
ShowFailRetried(r) ==
    /\ pc[r] = "show"
    /\ \E e \in Errors :
          /\ raised[r].exc # e
          /\ raised' = [raised EXCEPT ![r] = [at |-> "show", exc |-> e]]
    /\ UNCHANGED <<pc, argv, env, activeSession, spark, data, df, output,
                   calls, error>>

ShowFail(r) ==
    /\ pc[r] = "show"
    /\ calls' = [calls EXCEPT ![r] = Append(@, "show")]
    /\ \E e \in Errors : Propagate(r, "show", e)
    /\ UNCHANGED <<argv, env, activeSession, spark, data, df, output>>

\* one statement of run r
Step(r) ==
    \/ Import(r)
    \/ ImportFail(r)
    \/ GetOrCreate(r)
    \/ GetOrCreateFail(r)
    \/ DefineData(r)
    \/ CreateDataFrame(r)
    \/ CreateDataFrameFail(r)
    \/ Show(r)
    \/ ShowFail(r)

Next == \E r \in Runs : Step(r)

Spec == Init /\ [][Next]_vars

\* Each statement of a run completes: the interpreter executes the next
\* statement, and every framework call returns or raises.
LiveSpec == Spec /\ \A r \in Runs : WF_vars(Step(r))

TypeOK ==
    /\ pc \in [Runs -> {"import", "getOrCreate", "data", "createDataFrame",
                        "show", "done", "failed"}]
    /\ argv \in [Runs -> Argvs]
    /\ env \in [Runs -> Envs]
    /\ activeSession \in [Runs -> {None, PreSession, NewSession}]
    /\ spark \in [Runs -> {None, PreSession, NewSession}]
    /\ \A r \in Runs :
          /\ Len(data[r]) <= 1 /\ Len(df[r]) <= 1
          /\ Len(output[r]) <= 1 /\ Len(calls[r]) <= 3
          /\ raised[r].at \in {None, "import", "getOrCreate",
                                "createDataFrame", "show"}
          /\ raised[r].exc \in {None} \cup Errors \cup ImportErrors
          /\ error[r] \in {None} \cup Errors \cup ImportErrors

\* ---- properties ------------------------------------------------------------
Terminal == {"done", "failed"}
CallOrder == <<"getOrCreate", "createDataFrame", "show">>
Count(seq, c) == Cardinality({i \in 1..Len(seq) : seq[i] = c})

\* C1: a run in which all three framework calls succeeded has built a
\* dataframe with the columns "id", "name" and the rows (1, "Alice"),
\* (2, "Bob") in that order, and has displayed exactly that table: the
\* header id, name and the rows 1 Alice and 2 Bob, nothing added, removed,
\* duplicated or reordered.
C1_TableExact ==
    \A r \in Runs :
        pc[r] = "done" =>
            /\ df[r] = << [session |-> spark[r],
                           columns |-> <<"id", "name">>,
                           rows |-> << <<[type |-> "int", val |-> 1],
                                         [type |-> "str", val |-> "Alice"]>>,
                                       <<[type |-> "int", val |-> 2],
                                         [type |-> "str", val |-> "Bob"]>> >>] >>
            /\ output[r] = << [header |-> <<"id", "name">>,
                               rows |-> << <<"1", "Alice">>,
                                           <<"2", "Bob">> >>] >>

C1_Witness ==
    /\ pc[1] = "done"
    /\ calls[1] = CallOrder
    /\ Len(output[1]) = 1
    /\ Len(output[1][1].rows) = 2

\* C2: once a framework call has raised, the run has ended with exactly the
\* exception that was raised, the failing call is the last call made, no call
\* was made twice, and nothing has been displayed; after a failure of
\* getOrCreate neither createDataFrame nor show has been invoked, after a
\* failure of createDataFrame show has not been invoked.
C2_FailurePropagates ==
    \A r \in Runs :
        raised[r].at \in {"getOrCreate", "createDataFrame", "show"} =>
            /\ pc[r] = "failed"
            /\ error[r] = raised[r].exc
            /\ error[r] \in Errors
            /\ output[r] = <<>>
            /\ raised[r].at = "getOrCreate" =>
                   /\ calls[r] = <<"getOrCreate">>
                   /\ spark[r] = None
                   /\ ~IsBound(df[r])
            /\ raised[r].at = "createDataFrame" =>
                   /\ calls[r] = <<"getOrCreate", "createDataFrame">>
                   /\ ~IsBound(df[r])
            /\ raised[r].at = "show" =>
                   calls[r] = <<"getOrCreate", "createDataFrame", "show">>

C2_Witness ==
    /\ pc[1] = "failed"
    /\ raised[1].at = "getOrCreate"
    /\ pc[2] = "failed"
    /\ raised[2].at = "createDataFrame"

\* C3: two successful runs display the same table, whatever the command-line
\* arguments, the environment variables and the pre-existing session of each.
C3_OutputIndependentOfInput ==
    \A r1, r2 \in Runs :
        (pc[r1] = "done" /\ pc[r2] = "done") => output[r1] = output[r2]

C3_Witness ==
    /\ pc[1] = "done"
    /\ pc[2] = "done"
    /\ argv[1] # argv[2]
    /\ env[1] # env[2]
    /\ spark[1] # spark[2]
    /\ output[1] # <<>>

\* C4: the framework calls of a run are made in the order getOrCreate,
\* createDataFrame, show; createDataFrame is invoked only with a session
\* obtained, and show only on a constructed dataframe.
C4_CallOrder ==
    \A r \in Runs :
        /\ Len(calls[r]) <= Len(CallOrder)
        /\ calls[r] = SubSeq(CallOrder, 1, Len(calls[r]))
        /\ Count(calls[r], "createDataFrame") > 0 => spark[r] # None
        /\ Count(calls[r], "show") > 0 => IsBound(df[r])

C4_Witness ==
    /\ calls[2] = <<"getOrCreate", "createDataFrame", "show">>
    /\ spark[2] # None
    /\ IsBound(df[2])

\* C5: each of getOrCreate, createDataFrame and show is invoked at most once
\* in a run; the table is displayed at most once, and exactly once (with each
\* call made exactly once) in a run where every call succeeded.
C5_AtMostOnce ==
    \A r \in Runs :
        /\ \A c \in {"getOrCreate", "createDataFrame", "show"} :
               Count(calls[r], c) <= 1
        /\ Len(output[r]) <= 1
        /\ pc[r] = "done" =>
               /\ Len(output[r]) = 1
               /\ \A c \in {"getOrCreate", "createDataFrame", "show"} :
                      Count(calls[r], c) = 1

C5_Witness ==
    /\ pc[1] = "done"
    /\ Count(calls[1], "show") = 1
    /\ pc[2] = "failed"
    /\ Count(calls[2], "show") = 1
    /\ output[2] = <<>>

\* C6: from its definition to the end of the run, data is the list
\* [(1, "Alice"), (2, "Bob")]: two records, each an int and a str; it is
\* defined before createDataFrame is called, and the rows handed to
\* createDataFrame are that list.
C6_DataFixed ==
    \A r \in Runs :
        /\ IsBound(data[r]) =>
               /\ Len(ValueOf(data[r])) = 2
               /\ \A i \in 1..2 :
                      /\ Len(ValueOf(data[r])[i]) = 2
                      /\ ValueOf(data[r])[i][1].type = "int"
                      /\ ValueOf(data[r])[i][2].type = "str"
               /\ ValueOf(data[r])[1][1].val = 1
               /\ ValueOf(data[r])[1][2].val = "Alice"
               /\ ValueOf(data[r])[2][1].val = 2
               /\ ValueOf(data[r])[2][2].val = "Bob"
        /\ Count(calls[r], "createDataFrame") > 0 => IsBound(data[r])
        /\ IsBound(df[r]) => ValueOf(df[r]).rows = ValueOf(data[r])

C6_Witness ==
    /\ pc[2] = "done"
    /\ IsBound(data[2])
    /\ IsBound(df[2])
    /\ pc[1] = "failed"
    /\ raised[1].at = "show"
    /\ IsBound(data[1])

\* C7: every run terminates: it eventually is, and stays, at its end after
\* show returned or at its first failing statement; and in every state
\* before that the run has a statement to execute.
C7_Terminates ==
    /\ \A r \in Runs : <>[](pc[r] \in Terminal)
    /\ [](\A r \in Runs : pc[r] \notin Terminal => ENABLED <<Step(r)>>_vars)

C7_Witness ==
    /\ pc[1] = "done"
    /\ pc[2] = "failed"
    /\ raised[2].at = "import"

\* C8: the session obtained by getOrCreate is never stopped: in every state
\* after the call returned, and in particular at the end of the run, it is
\* still the framework's active session.
C8_SessionNeverStopped ==
    \A r \in Runs :
        /\ spark[r] # None => activeSession[r] = spark[r]
        /\ pc[r] = "done" => spark[r] # None

C8_Witness ==
    /\ pc[1] = "done"
    /\ spark[1] = NewSession
    /\ activeSession[1] = NewSession
    /\ pc[2] = "done"
    /\ spark[2] = PreSession
    /\ activeSession[2] = PreSession
====
